---------------------------- MODULE Spec2Model ----------------------------
(***************************************************************************)
(* A model of the ontology question-answering engine: the in-memory edge   *)
(* store, the question parser, the bounded typed BFS, the hierarchy and    *)
(* attribute reasoners, the result cache, the reasoning coordinator and    *)
(* the orchestrator.                                                       *)
(*                                                                         *)
(* Strings are sequences of one-character strings, so that the parser's    *)
(* regular expressions are matched character by character.  Confidences    *)
(* are percentages (0.95 is 95).  Wall-clock time is the set of pop        *)
(* numbers at which the traversal finds its time budget spent.             *)
(***************************************************************************)
EXTENDS Integers, Sequences, FiniteSets, TLC

VARIABLES
    edges,          \* InMemoryAdapter.edges: the list of stored edges
    is_connected,   \* InMemoryAdapter._is_connected
    cache,          \* QueryCacheService: (question_type, head, tail) -> result
    last,           \* what the most recent operation was given and returned
    ncalls,         \* the number of process_question calls made so far
    tasks           \* the answer_question coroutines in flight: where each
                    \* one is, its question and its local variables

vars == <<edges, is_connected, cache, last, ncalls, tasks>>

(***************************************************************************)
(* Bounds of the model.                                                    *)
(***************************************************************************)
MaxEdges == 4       \* stored edges
MaxCalls == 2       \* process_question calls in one behaviour
max_depth == 2      \* ExecutionContext.max_depth, scaled down from 64

(***************************************************************************)
(* Enumerations.                                                           *)
(***************************************************************************)
SUBCLASS_OF == "SUBCLASS_OF"
INSTANCE_OF == "INSTANCE_OF"
HAS_ATTRIBUTE == "HAS_ATTRIBUTE"
MUTUALLY_EXCLUSIVE == "MUTUALLY_EXCLUSIVE"

EdgeType == {SUBCLASS_OF, INSTANCE_OF, HAS_ATTRIBUTE, MUTUALLY_EXCLUSIVE}

\* Mutant: the INSTANCE_OF pattern is tried before the SUBCLASS_OF pattern.
QuestionType_instance_first == <<INSTANCE_OF, SUBCLASS_OF, HAS_ATTRIBUTE>>

\* The order of the enumeration is the order in which the patterns are tried.
QuestionType == <<SUBCLASS_OF, INSTANCE_OF, HAS_ATTRIBUTE>>

YES == "YES"
NO == "NO"
DONT_KNOW == "DONT_KNOW"

QuestionResult == {YES, NO, DONT_KNOW}

(***************************************************************************)
(* Entity names and the keywords of the question patterns.                 *)
(***************************************************************************)
x == <<"x">>
y == <<"y">>
z == <<"z">>
v == <<"v">>
p == <<"p">>
w == <<"w">>

Entities == {x, y, z, v, p}

KwIs == <<"i", "s", " ">>
KwATypeOf == <<" ", "a", " ", "t", "y", "p", "e", " ", "o", "f", " ">>
KwA == <<" ", "a", " ">>
KwAn == <<" ", "a", "n", " ">>
KwConsideredToBe == <<" ", "c", "o", "n", "s", "i", "d", "e", "r", "e", "d",
                      " ", "t", "o", " ", "b", "e", " ">>
KwQuestionMark == <<"?">>

\* The infixes of _QUESTION_PATTERNS: the text between the two groups.
QUESTION_PATTERNS ==
    [t \in EdgeType \ {MUTUALLY_EXCLUSIVE} |->
        CASE t = SUBCLASS_OF -> {KwATypeOf}
          [] t = INSTANCE_OF -> {KwA, KwAn}
          [] t = HAS_ATTRIBUTE -> {KwConsideredToBe}]

\* An edge of the store; confidence 1.0 is the default of ingestion.
Edge(t, h, tl) ==
    [edge_type |-> t, head_entity |-> h, tail_entity |-> tl, confidence |-> 100]

edge_key(e) == <<e.edge_type, e.head_entity, e.tail_entity>>

Question(t, h, tl) == [question_type |-> t, head |-> h, tail |-> tl]

NoQuestion == Question("none", <<>>, <<>>)

(***************************************************************************)
(* Question.from_string: a full match of "is ", a greedy first group, the  *)
(* infix of the pattern, a second group and a final question mark.         *)
(***************************************************************************)
StartsAt(text, s, k) ==
    /\ k + Len(s) - 1 <= Len(text)
    /\ \A j \in 1..Len(s) : text[k + j - 1] = s[j]

\* The lengths i of "is <H>" for which the rest of the text is an infix of
\* the pattern, a second group and the final question mark.
Splits(text, infixes) ==
    IF Len(text) >= 1 /\ StartsAt(text, KwIs, 1) /\ text[Len(text)] = "?"
    THEN {i \in Len(KwIs)..Len(text) :
            \E s \in infixes : /\ StartsAt(text, s, i + 1)
                               /\ i + Len(s) <= Len(text) - 1}
    ELSE {}

Max(S) == CHOOSE m \in S : \A n \in S : n <= m

\* pattern.fullmatch(question): the groups of the match the backtracking
\* matcher finds first, which gives the first group its longest extent.
fullmatch(text, infixes) ==
    LET sp == Splits(text, infixes) IN
    IF sp = {} THEN [matched |-> FALSE, group1 |-> <<>>, group2 |-> <<>>]
    ELSE LET i == Max(sp)
             s == CHOOSE s \in infixes : StartsAt(text, s, i + 1)
         IN  [matched |-> TRUE,
              group1 |-> SubSeq(text, Len(KwIs) + 1, i),
              group2 |-> SubSeq(text, i + Len(s) + 1, Len(text) - 1)]

RECURSIVE from_string_at(_, _)
from_string_at(text, k) ==
    IF k > Len(QuestionType)
    THEN [raised |-> "QuestionParsingException", question |-> NoQuestion]
    ELSE LET m == fullmatch(text, QUESTION_PATTERNS[QuestionType[k]]) IN
         IF m.matched
         THEN [raised |-> "none",
               question |-> Question(QuestionType[k], m.group1, m.group2)]
         ELSE from_string_at(text, k + 1)

from_string(text) == from_string_at(text, 1)

(***************************************************************************)
(* The in-memory store.  A lookup on a store that is not connected raises. *)
(***************************************************************************)
\* InMemoryAdapter.connect: the list is emptied, whatever it held.
connect(E) == [edges |-> <<>>, is_connected |-> TRUE]

\* InMemoryAdapter.disconnect
disconnect(E) == [edges |-> <<>>, is_connected |-> FALSE]

\* InMemoryAdapter.store_edges: the keys of the stored edges are taken once,
\* before the batch is read; an edge of the batch whose key is among them
\* replaces the stored edge, every other edge of the batch is appended.
RECURSIVE replace_existing(_, _, _)
replace_existing(E, batch, k) ==
    IF k > Len(batch) THEN E
    ELSE LET edge == batch[k]
             hits == {i \in 1..Len(E) : edge_key(E[i]) = edge_key(edge)}
         IN  IF hits = {} THEN replace_existing(E, batch, k + 1)
             ELSE LET i == CHOOSE i \in hits : \A j \in hits : i <= j
                  IN  replace_existing([E EXCEPT ![i] = edge], batch, k + 1)

store_edges(E, conn, batch) ==
    IF ~conn THEN [raised |-> "RuntimeError", edges |-> E]
    ELSE LET existing_edges == {edge_key(E[i]) : i \in 1..Len(E)}
             new_edges == SelectSeq(batch, LAMBDA e : edge_key(e) \notin existing_edges)
         IN  [raised |-> "none",
              edges |-> replace_existing(E, batch, 1) \o new_edges]

\* InMemoryAdapter.retrieve_edges with one filter: the stored edges whose
\* field has the value, in the order of the list.
retrieve_edges(E, conn, field, value) ==
    IF ~conn THEN [raised |-> "RuntimeError", edges |-> <<>>]
    ELSE [raised |-> "none",
          edges |-> SelectSeq(E, LAMBDA e : e[field] = value)]

\* StorageService: the outgoing and the incoming edges of an entity.
get_relationships_by_head(E, conn, entity) ==
    retrieve_edges(E, conn, "head_entity", entity)

get_relationships_by_tail(E, conn, entity) ==
    retrieve_edges(E, conn, "tail_entity", entity)

\* Graph Store has_entity: the name is the head or the tail of some edge.
has_entity(E, name) ==
    \E i \in 1..Len(E) : E[i].head_entity = name \/ E[i].tail_entity = name

\* EntityValidator.entities_exist
entities_exist(E, conn, h, tl) ==
    IF ~conn THEN [raised |-> "RuntimeError", exist |-> FALSE]
    ELSE [raised |-> "none", exist |-> has_entity(E, h) /\ has_entity(E, tl)]

(***************************************************************************)
(* ExecutionContext.  expired_at is the set of pop numbers at which the    *)
(* traversal reads a clock more than timeout_seconds past its start.       *)
(***************************************************************************)
ExecutionContext == [max_depth |-> max_depth, expired_at |-> {}]

QueryMetrics(result, entities_visited, depth_reached, visited) ==
    [raised |-> "none", result |-> result,
     entities_visited |-> entities_visited, cache_hit |-> FALSE,
     depth_reached |-> depth_reached, visited |-> visited,
     dequeued |-> <<>>, enqueued |-> <<>>, queued_in_visited |-> TRUE,
     stopped |-> "none"]

\* A storage lookup that raised inside a strategy: no result, no metrics.
Raised(exception) ==
    [raised |-> exception, result |-> "none", entities_visited |-> 0,
     cache_hit |-> FALSE, depth_reached |-> 0, visited |-> {},
     dequeued |-> <<>>, enqueued |-> <<>>, queued_in_visited |-> TRUE,
     stopped |-> "none"]

\* What a traversal did, kept beside the metrics it returns: the entities
\* it dequeued with their depths and the entities it enqueued, in order,
\* whether every queued entity was in the visited set at each loop turn,
\* and the statement that ended it.
observed(metrics, log, stopped) ==
    [metrics EXCEPT !.dequeued = log.dequeued, !.enqueued = log.enqueued,
                    !.queued_in_visited = log.queued_in_visited,
                    !.stopped = stopped]

\* The record of a loop turn that dequeues the head of s.queue.
turn(s) ==
    [dequeued |-> Append(s.log.dequeued, Head(s.queue)),
     enqueued |-> s.log.enqueued,
     queued_in_visited |->
        /\ s.log.queued_in_visited
        /\ \A i \in 1..Len(s.queue) : s.queue[i].entity \in s.visited]

\* The record after the for loop enqueued the entities that scan_queue
\* holds beyond queue.
enqueue(log, queue, scan_queue) ==
    [log EXCEPT !.enqueued =
        log.enqueued \o [i \in 1..(Len(scan_queue) - Len(queue)) |->
                            scan_queue[Len(queue) + i].entity]]

(***************************************************************************)
(* TraversalService: the bounded typed breadth-first search.               *)
(***************************************************************************)
\* Mutant: the mutual-exclusivity check never fires.
check_mutual_exclusivity_never(relationships, target) == FALSE

\* _check_mutual_exclusivity
check_mutual_exclusivity(relationships, target) ==
    LET mutex_targets ==
            {relationships[i].tail_entity :
                i \in {j \in 1..Len(relationships) :
                        relationships[j].edge_type = MUTUALLY_EXCLUSIVE}}
    IN  target \in mutex_targets

\* Mutant: edges of the other hierarchy type are followed as well.
filter_relevant_relationships_any_type(relationships, edge_type, first_iteration) ==
    SelectSeq(relationships,
              LAMBDA rel : rel.edge_type \in {SUBCLASS_OF, INSTANCE_OF})

\* Mutant: an INSTANCE_OF question follows INSTANCE_OF edges at every hop.
filter_relevant_relationships_every_hop(relationships, edge_type, first_iteration) ==
    IF edge_type = INSTANCE_OF
    THEN IF first_iteration
         THEN SelectSeq(relationships, LAMBDA rel : rel.edge_type = INSTANCE_OF)
         ELSE SelectSeq(relationships,
                        LAMBDA rel : rel.edge_type \in {SUBCLASS_OF, INSTANCE_OF})
    ELSE SelectSeq(relationships, LAMBDA rel : rel.edge_type = SUBCLASS_OF)

\* _filter_relevant_relationships
filter_relevant_relationships(relationships, edge_type, first_iteration) ==
    IF first_iteration /\ edge_type = INSTANCE_OF
    THEN SelectSeq(relationships, LAMBDA rel : rel.edge_type = INSTANCE_OF)
    ELSE SelectSeq(relationships, LAMBDA rel : rel.edge_type = SUBCLASS_OF)

\* Mutant: the for loop enqueues the tail of every relationship, visited
\* before or not.
RECURSIVE for_rel_in_revisit(_, _, _, _, _, _)
for_rel_in_revisit(relevant_rels, k, target, visited, queue, depth) ==
    IF k > Len(relevant_rels)
    THEN [found |-> FALSE, visited |-> visited, queue |-> queue]
    ELSE LET rel == relevant_rels[k] IN
         IF rel.tail_entity = target
         THEN [found |-> TRUE, visited |-> visited, queue |-> queue]
         ELSE for_rel_in_revisit(relevant_rels, k + 1, target,
                                 visited \cup {rel.tail_entity},
                                 Append(queue, [entity |-> rel.tail_entity,
                                                depth |-> depth + 1]),
                                 depth)

\* The for loop over the relevant relationships of one entity, from the k-th
\* on: it returns at the first one whose tail is the target, and enqueues
\* the tails not yet visited on its way.
RECURSIVE for_rel_in(_, _, _, _, _, _)
for_rel_in(relevant_rels, k, target, visited, queue, depth) ==
    IF k > Len(relevant_rels)
    THEN [found |-> FALSE, visited |-> visited, queue |-> queue]
    ELSE LET rel == relevant_rels[k] IN
         IF rel.tail_entity = target
         THEN [found |-> TRUE, visited |-> visited, queue |-> queue]
         ELSE IF rel.tail_entity \notin visited
         THEN for_rel_in(relevant_rels, k + 1, target,
                         visited \cup {rel.tail_entity},
                         Append(queue, [entity |-> rel.tail_entity,
                                        depth |-> depth + 1]),
                         depth)
         ELSE for_rel_in(relevant_rels, k + 1, target, visited, queue, depth)

\* Mutant: a closed world, where a target that was not found is denied.
path_not_found_closed_world(entities_visited, depth, queue, visited, ctx) ==
    QueryMetrics(NO, entities_visited,
                 IF queue # <<>> THEN depth ELSE ctx.max_depth, visited)

\* The statements after the loop: the traversal found neither the target
\* nor a mutual exclusion.
path_not_found(entities_visited, depth, queue, visited, ctx) ==
    QueryMetrics(DONT_KNOW, entities_visited,
                 IF queue # <<>> THEN depth ELSE ctx.max_depth, visited)

\* Mutant: the loop does not look at the depth of the entity it dequeues.
RECURSIVE while_queue_unbounded(_, _, _, _, _, _)
while_queue_unbounded(E, conn, target, edge_type, ctx, s) ==
    IF s.queue = <<>>
    THEN observed(path_not_found(s.entities_visited, s.depth, s.queue,
                                 s.visited, ctx),
                  s.log, "exhausted")
    ELSE
    LET current == Head(s.queue).entity
        depth == Head(s.queue).depth
        queue == Tail(s.queue)
        entities_visited == s.entities_visited + 1
    IN
    IF entities_visited \in ctx.expired_at
    THEN observed(path_not_found(entities_visited, depth, queue, s.visited,
                                 ctx),
                  turn(s), "timeout")
    ELSE
    LET lookup == get_relationships_by_head(E, conn, current)
        relationships == lookup.edges
    IN
    IF lookup.raised # "none" THEN Raised(lookup.raised)
    ELSE IF check_mutual_exclusivity(relationships, target)
    THEN observed(QueryMetrics(NO, entities_visited, depth, s.visited),
                  turn(s), "excluded")
    ELSE
    LET relevant_rels ==
            filter_relevant_relationships(relationships, edge_type,
                                          s.first_iteration)
        scan == for_rel_in(relevant_rels, 1, target, s.visited, queue, depth)
    IN
    IF scan.found
    THEN observed(QueryMetrics(YES, entities_visited, depth, scan.visited),
                  enqueue(turn(s), queue, scan.queue), "found")
    ELSE while_queue_unbounded(E, conn, target, edge_type, ctx,
                               [queue |-> scan.queue, visited |-> scan.visited,
                                entities_visited |-> entities_visited,
                                first_iteration |-> FALSE, depth |-> depth,
                      log |-> enqueue(turn(s), queue, scan.queue)])

\* Mutant: the relevant relationships are scanned for the target before the
\* mutual-exclusivity check is made.
RECURSIVE while_queue_accept_first(_, _, _, _, _, _)
while_queue_accept_first(E, conn, target, edge_type, ctx, s) ==
    IF s.queue = <<>>
    THEN observed(path_not_found(s.entities_visited, s.depth, s.queue,
                                 s.visited, ctx),
                  s.log, "exhausted")
    ELSE
    LET current == Head(s.queue).entity
        depth == Head(s.queue).depth
        queue == Tail(s.queue)
        entities_visited == s.entities_visited + 1
    IN
    IF depth > ctx.max_depth
    THEN observed(path_not_found(entities_visited, depth, queue, s.visited,
                                 ctx),
                  turn(s), "depth")
    ELSE IF entities_visited \in ctx.expired_at
    THEN observed(path_not_found(entities_visited, depth, queue, s.visited,
                                 ctx),
                  turn(s), "timeout")
    ELSE
    LET lookup == get_relationships_by_head(E, conn, current)
        relationships == lookup.edges
    IN
    IF lookup.raised # "none" THEN Raised(lookup.raised)
    ELSE
    LET relevant_rels ==
            filter_relevant_relationships(relationships, edge_type,
                                          s.first_iteration)
        scan == for_rel_in(relevant_rels, 1, target, s.visited, queue, depth)
    IN
    IF scan.found
    THEN observed(QueryMetrics(YES, entities_visited, depth, scan.visited),
                  enqueue(turn(s), queue, scan.queue), "found")
    ELSE IF check_mutual_exclusivity(relationships, target)
    THEN observed(QueryMetrics(NO, entities_visited, depth, s.visited),
                  turn(s), "excluded")
    ELSE while_queue_accept_first(E, conn, target, edge_type, ctx,
                     [queue |-> scan.queue, visited |-> scan.visited,
                      entities_visited |-> entities_visited,
                      first_iteration |-> FALSE, depth |-> depth,
                      log |-> enqueue(turn(s), queue, scan.queue)])

\* The while loop of find_path, from the state s of its local variables.
RECURSIVE while_queue(_, _, _, _, _, _)
while_queue(E, conn, target, edge_type, ctx, s) ==
    IF s.queue = <<>>
    THEN observed(path_not_found(s.entities_visited, s.depth, s.queue,
                                 s.visited, ctx),
                  s.log, "exhausted")
    ELSE
    LET current == Head(s.queue).entity
        depth == Head(s.queue).depth
        queue == Tail(s.queue)
        entities_visited == s.entities_visited + 1
    IN
    IF depth > ctx.max_depth
    THEN observed(path_not_found(entities_visited, depth, queue, s.visited,
                                 ctx),
                  turn(s), "depth")
    ELSE IF entities_visited \in ctx.expired_at
    THEN observed(path_not_found(entities_visited, depth, queue, s.visited,
                                 ctx),
                  turn(s), "timeout")
    ELSE
    LET lookup == get_relationships_by_head(E, conn, current)
        relationships == lookup.edges
    IN
    IF lookup.raised # "none" THEN Raised(lookup.raised)
    ELSE IF check_mutual_exclusivity(relationships, target)
    THEN observed(QueryMetrics(NO, entities_visited, depth, s.visited),
                  turn(s), "excluded")
    ELSE
    LET relevant_rels ==
            filter_relevant_relationships(relationships, edge_type,
                                          s.first_iteration)
        scan == for_rel_in(relevant_rels, 1, target, s.visited, queue, depth)
    IN
    IF scan.found
    THEN observed(QueryMetrics(YES, entities_visited, depth, scan.visited),
                  enqueue(turn(s), queue, scan.queue), "found")
    ELSE while_queue(E, conn, target, edge_type, ctx,
                     [queue |-> scan.queue, visited |-> scan.visited,
                      entities_visited |-> entities_visited,
                      first_iteration |-> FALSE, depth |-> depth,
                      log |-> enqueue(turn(s), queue, scan.queue)])

\* TraversalService.find_path
find_path(E, conn, start, target, edge_type, ctx) ==
    while_queue(E, conn, target, edge_type, ctx,
                [queue |-> <<[entity |-> start, depth |-> 0]>>,
                 visited |-> {start}, entities_visited |-> 0,
                 first_iteration |-> TRUE, depth |-> 0,
                 log |-> [dequeued |-> <<>>, enqueued |-> <<start>>,
                          queued_in_visited |-> TRUE]])

(***************************************************************************)
(* The reasoning strategies.                                               *)
(***************************************************************************)
\* Mutant: no reflexivity rule, every question is traversed.
HierarchyReasoner_reason_no_reflexivity(E, conn, question, ctx) ==
    LET edge_type == IF question.question_type = SUBCLASS_OF
                     THEN SUBCLASS_OF ELSE INSTANCE_OF
    IN  find_path(E, conn, question.head, question.tail, edge_type, ctx)

\* Mutant: the reflexivity rule answers YES for either question type.
HierarchyReasoner_reason_reflexive_yes(E, conn, question, ctx) ==
    IF question.head = question.tail
    THEN QueryMetrics(YES, 0, 0, {})
    ELSE LET edge_type == IF question.question_type = SUBCLASS_OF
                          THEN SUBCLASS_OF ELSE INSTANCE_OF
         IN  find_path(E, conn, question.head, question.tail, edge_type, ctx)

\* HierarchyReasoner.reason
HierarchyReasoner_reason(E, conn, question, ctx) ==
    IF question.head = question.tail
    THEN QueryMetrics(IF question.question_type = SUBCLASS_OF THEN YES ELSE NO,
                      0, 0, {})
    ELSE LET edge_type == IF question.question_type = SUBCLASS_OF
                          THEN SUBCLASS_OF ELSE INSTANCE_OF
         IN  find_path(E, conn, question.head, question.tail, edge_type, ctx)

\* The entities with a HAS_ATTRIBUTE edge to the tail.
attribute_parents(attribute_relationships) ==
    {attribute_relationships[i].head_entity :
        i \in {j \in 1..Len(attribute_relationships) :
                attribute_relationships[j].edge_type = HAS_ATTRIBUTE}}

\* Mutant: a NO of a hierarchy sub-query is the answer to the attribute
\* question.
RECURSIVE for_parent_in_propagate_no(_, _, _, _, _, _, _)
for_parent_in_propagate_no(E, conn, question, ctx, order, k, entities_visited) ==
    IF k > Len(order)
    THEN QueryMetrics(DONT_KNOW, entities_visited, 0, {})
    ELSE LET hierarchy_question == Question(SUBCLASS_OF, question.head, order[k])
             sub == HierarchyReasoner_reason(E, conn, hierarchy_question, ctx)
         IN  IF sub.raised # "none" THEN Raised(sub.raised)
             ELSE IF sub.result \in {YES, NO}
             THEN QueryMetrics(sub.result,
                               entities_visited + sub.entities_visited, 0, {})
             ELSE for_parent_in_propagate_no(E, conn, question, ctx, order,
                                             k + 1,
                                             entities_visited
                                                + sub.entities_visited)

\* Mutant: only the first attribute holder that the iteration meets is tried.
for_parent_in_first_only(E, conn, question, ctx, order, k, entities_visited) ==
    IF k > Len(order)
    THEN QueryMetrics(DONT_KNOW, entities_visited, 0, {})
    ELSE LET hierarchy_question == Question(SUBCLASS_OF, question.head, order[k])
             sub == HierarchyReasoner_reason(E, conn, hierarchy_question, ctx)
         IN  IF sub.raised # "none" THEN Raised(sub.raised)
             ELSE QueryMetrics(IF sub.result = YES THEN YES ELSE DONT_KNOW,
                               entities_visited + sub.entities_visited, 0, {})

\* The loop over attribute_parents, in the order the set is iterated, from
\* the k-th parent on.
RECURSIVE for_parent_in(_, _, _, _, _, _, _)
for_parent_in(E, conn, question, ctx, order, k, entities_visited) ==
    IF k > Len(order)
    THEN QueryMetrics(DONT_KNOW, entities_visited, 0, {})
    ELSE LET hierarchy_question == Question(SUBCLASS_OF, question.head, order[k])
             sub == HierarchyReasoner_reason(E, conn, hierarchy_question, ctx)
         IN  IF sub.raised # "none" THEN Raised(sub.raised)
             ELSE IF sub.result = YES
             THEN QueryMetrics(YES, entities_visited + sub.entities_visited, 0, {})
             ELSE for_parent_in(E, conn, question, ctx, order, k + 1,
                                entities_visited + sub.entities_visited)

\* Mutant: only the direct holders of the attribute have it.
AttributeReasoner_reason_direct_only(E, conn, question, ctx, order) ==
    LET lookup == get_relationships_by_tail(E, conn, question.tail) IN
    IF lookup.raised # "none" THEN Raised(lookup.raised)
    ELSE IF question.head \in attribute_parents(lookup.edges)
    THEN QueryMetrics(YES, 1, 0, {})
    ELSE QueryMetrics(DONT_KNOW, 1, 0, {})

\* Mutant: whoever is asked has the attribute as soon as some entity has it.
AttributeReasoner_reason_any_holder(E, conn, question, ctx, order) ==
    LET lookup == get_relationships_by_tail(E, conn, question.tail) IN
    IF lookup.raised # "none" THEN Raised(lookup.raised)
    ELSE IF attribute_parents(lookup.edges) # {}
    THEN QueryMetrics(YES, 1, 0, {})
    ELSE QueryMetrics(DONT_KNOW, 1, 0, {})

\* Mutant: the incoming-edge lookup is not counted as a visit.
AttributeReasoner_reason_uncounted(E, conn, question, ctx, order) ==
    LET lookup == get_relationships_by_tail(E, conn, question.tail) IN
    IF lookup.raised # "none" THEN Raised(lookup.raised)
    ELSE IF question.head \in attribute_parents(lookup.edges)
    THEN QueryMetrics(YES, 0, 0, {})
    ELSE for_parent_in(E, conn, question, ctx, order, 1, 0)

\* AttributeReasoner.reason; order is the order in which the set
\* attribute_parents is iterated.
AttributeReasoner_reason(E, conn, question, ctx, order) ==
    LET lookup == get_relationships_by_tail(E, conn, question.tail) IN
    IF lookup.raised # "none" THEN Raised(lookup.raised)
    ELSE IF question.head \in attribute_parents(lookup.edges)
    THEN QueryMetrics(YES, 1, 0, {})
    ELSE for_parent_in(E, conn, question, ctx, order, 1, 1)

\* The orders in which a set can be iterated.
RECURSIVE Orders(_)
Orders(S) ==
    IF S = {} THEN {<<>>}
    ELSE UNION {{<<e>> \o o : o \in Orders(S \ {e})} : e \in S}

\* The iteration orders a question's strategy can meet.
IterationOrders(E, question) ==
    IF question.question_type = HAS_ATTRIBUTE
    THEN Orders(attribute_parents(SelectSeq(E,
                    LAMBDA e : e.tail_entity = question.tail)))
    ELSE {<<>>}

\* ServiceFactory.create_reasoning_coordinator: the registered strategies.
strategies ==
    [t \in {SUBCLASS_OF, INSTANCE_OF, HAS_ATTRIBUTE} |->
        IF t = HAS_ATTRIBUTE THEN "AttributeReasoner" ELSE "HierarchyReasoner"]

\* strategy.reason(question, context)
reason(E, conn, question, ctx, order) ==
    IF strategies[question.question_type] = "AttributeReasoner"
    THEN AttributeReasoner_reason(E, conn, question, ctx, order)
    ELSE HierarchyReasoner_reason(E, conn, question, ctx)

(***************************************************************************)
(* The result cache, the coordinator and the orchestrator.                 *)
(***************************************************************************)
\* The depth_reached of a QueryResult that is constructed without one.
DefaultDepthReached == 0

\* QueryResult as the coordinator and the orchestrator construct it: no
\* construction passes depth_reached.
QueryResult(result, confidence, entities_visited, cache_hit, explanation) ==
    [result |-> result, confidence |-> confidence,
     entities_visited |-> entities_visited, cache_hit |-> cache_hit,
     explanation |-> explanation, depth_reached |-> DefaultDepthReached]

\* An explanation is the sequence of the pieces of its text; None is the
\* explanation of a result that is given none.
None == <<>>

NoResult == QueryResult("none", 0, 0, FALSE, None)

cache_key(question) == <<question.question_type, question.head, question.tail>>

EmptyCache == [k \in {} |-> DONT_KNOW]

\* QueryCacheService.get_cached_result: "None" when the key has no entry.
get_cached_result(C, question) ==
    IF cache_key(question) \in DOMAIN C THEN C[cache_key(question)] ELSE "None"

\* Mutant: the cache records that the question was asked, not its answer.
cache_result_unanswered(C, question, result) ==
    [k \in DOMAIN C \cup {cache_key(question)} |->
        IF k = cache_key(question) THEN DONT_KNOW ELSE C[k]]

\* QueryCacheService.cache_result
cache_result(C, question, result) ==
    [k \in DOMAIN C \cup {cache_key(question)} |->
        IF k = cache_key(question) THEN result ELSE C[k]]

\* What a call hands back: the exception it raised or the QueryResult it
\* returned, the cache it leaves, and what it did on its way.
Outcome(raised, response, C, parsed, validated, coordinated, question, metrics) ==
    [raised |-> raised, response |-> response, cache |-> C,
     parsed |-> parsed, validated |-> validated,
     coordinated |-> coordinated, question |-> question,
     visited |-> metrics.visited, depth_reached |-> metrics.depth_reached,
     strategy_result |-> metrics.result,
     dequeued |-> metrics.dequeued, enqueued |-> metrics.enqueued,
     queued_in_visited |-> metrics.queued_in_visited,
     stopped |-> metrics.stopped]

\* Mutant: the result for an unknown question type explains nothing.
create_unknown_result_unexplained(question) ==
    QueryResult(DONT_KNOW, 0, 0, FALSE, None)

\* ReasoningCoordinator._create_unknown_result
create_unknown_result(question) ==
    QueryResult(DONT_KNOW, 0, 0, FALSE, <<"Unknown question type">>)

\* Mutant: the computed result is returned and not cached.
answer_question_no_cache_write(E, conn, C, question, order) ==
    LET cached_result == get_cached_result(C, question) IN
    IF cached_result # "None"
    THEN Outcome("none", QueryResult(cached_result, 100, 0, TRUE, None), C,
                 TRUE, TRUE, TRUE, question, Raised("none"))
    ELSE IF question.question_type \notin DOMAIN strategies
    THEN Outcome("none", create_unknown_result(question), C,
                 TRUE, TRUE, TRUE, question, Raised("none"))
    ELSE LET metrics == reason(E, conn, question, ExecutionContext, order) IN
         IF metrics.raised # "none"
         THEN Outcome(metrics.raised, NoResult, C,
                      TRUE, TRUE, TRUE, question, metrics)
         ELSE Outcome("none",
                      QueryResult(metrics.result, 95, metrics.entities_visited,
                                  metrics.cache_hit, None),
                      C, TRUE, TRUE, TRUE, question, metrics)

\* ReasoningCoordinator.answer_question
answer_question(E, conn, C, question, order) ==
    LET cached_result == get_cached_result(C, question) IN
    IF cached_result # "None"
    THEN Outcome("none", QueryResult(cached_result, 100, 0, TRUE, None), C,
                 TRUE, TRUE, TRUE, question, Raised("none"))
    ELSE IF question.question_type \notin DOMAIN strategies
    THEN Outcome("none", create_unknown_result(question), C,
                 TRUE, TRUE, TRUE, question, Raised("none"))
    ELSE LET metrics == reason(E, conn, question, ExecutionContext, order) IN
         IF metrics.raised # "none"
         THEN Outcome(metrics.raised, NoResult, C,
                      TRUE, TRUE, TRUE, question, metrics)
         ELSE Outcome("none",
                      QueryResult(metrics.result, 95, metrics.entities_visited,
                                  metrics.cache_hit, None),
                      cache_result(C, question, metrics.result),
                      TRUE, TRUE, TRUE, question, metrics)

\* Mutant: the question goes to the coordinator without validation.
process_question_no_validation(E, conn, C, question_text, order) ==
    LET parse == from_string(question_text) IN
    IF parse.raised # "none"
    THEN Outcome(parse.raised, NoResult, C,
                 FALSE, FALSE, FALSE, parse.question, Raised("none"))
    ELSE answer_question(E, conn, C, parse.question, order)

\* The explanation process_question gives for unknown entities.
EntitiesNotFound(head, tail) == <<"Entities not found: ", head, ", ", tail>>

\* Orchestrator.process_question
process_question(E, conn, C, question_text, order) ==
    LET parse == from_string(question_text)
        question == parse.question
        known == entities_exist(E, conn, question.head, question.tail)
    IN
    IF parse.raised # "none"
    THEN Outcome(parse.raised, NoResult, C,
                 FALSE, FALSE, FALSE, question, Raised("none"))
    ELSE IF known.raised # "none"
    THEN Outcome(known.raised, NoResult, C,
                 TRUE, FALSE, FALSE, question, Raised("none"))
    ELSE IF ~known.exist
    THEN Outcome("none",
                 QueryResult(DONT_KNOW, 0, 0, FALSE,
                             EntitiesNotFound(question.head, question.tail)),
                 C,
                 TRUE, FALSE, FALSE, question, Raised("none"))
    ELSE answer_question(E, conn, C, question, order)

(***************************************************************************)
(* The inputs of the model.                                                *)
(***************************************************************************)
\* The edges ingestion can bring: the classes v, x, y and z (z also as an
\* instance) and the attribute p; w is in no edge.
EdgeUniverse ==
    {Edge(HAS_ATTRIBUTE, x, p),
     Edge(SUBCLASS_OF, z, y), Edge(SUBCLASS_OF, y, x), Edge(SUBCLASS_OF, x, v),
     Edge(SUBCLASS_OF, z, x),
     Edge(INSTANCE_OF, z, y), Edge(INSTANCE_OF, z, z),
     Edge(MUTUALLY_EXCLUSIVE, y, x), Edge(MUTUALLY_EXCLUSIVE, x, x),
     Edge(MUTUALLY_EXCLUSIVE, v, p)}

\* The questions put to a strategy directly.
Questions ==
    {Question(QuestionType[k], h, tl) :
        k \in 1..Len(QuestionType), h \in Entities, tl \in Entities}

\* The surface form of a question.
format(question_type, h, tl) ==
    KwIs \o h
         \o (CASE question_type = SUBCLASS_OF -> KwATypeOf
               [] question_type = INSTANCE_OF -> KwA
               [] question_type = HAS_ATTRIBUTE -> KwConsideredToBe)
         \o tl \o KwQuestionMark

\* The edges and the batches stored while questions are being asked.
IngestEdges ==
    {Edge(SUBCLASS_OF, y, x), Edge(SUBCLASS_OF, x, y),
     Edge(MUTUALLY_EXCLUSIVE, x, y), Edge(HAS_ATTRIBUTE, y, p)}

\* A later write of the triple (y SUBCLASS_OF x), with another confidence.
Rewrite == [Edge(SUBCLASS_OF, y, x) EXCEPT !.confidence = 50]

\* Batches of one edge, and a batch that holds one triple twice.
Batches ==
    {<<e>> : e \in IngestEdges \cup {Rewrite}}
    \cup {<<Edge(SUBCLASS_OF, y, x), Rewrite>>}

\* The question texts: well-formed questions over stored and unknown
\* entities, and texts no pattern matches.
Texts ==
    {format(SUBCLASS_OF, x, y),
     format(INSTANCE_OF, x, x),
     format(HAS_ATTRIBUTE, x, p),
     format(SUBCLASS_OF, w, w),
     format(INSTANCE_OF, x, w),
     KwIs \o x \o KwAn \o y \o KwQuestionMark,
     KwIs \o x \o <<" ">> \o y \o KwQuestionMark,
     <<"h", "o", "w", " ">> \o x \o KwQuestionMark}

(***************************************************************************)
(* The state machine.                                                      *)
(***************************************************************************)
Last(op, text, out) == [op |-> op, text |-> text, out |-> out]

NoOutcome(raised) ==
    Outcome(raised, NoResult, EmptyCache, FALSE, FALSE, FALSE, NoQuestion,
            Raised("none"))

Init ==
    /\ edges = <<>>
    /\ is_connected = FALSE
    /\ cache = EmptyCache
    /\ last = Last("init", <<>>, NoOutcome("none"))
    /\ ncalls = 0
    /\ tasks = <<>>

Connect ==
    /\ edges' = connect(edges).edges
    /\ is_connected' = connect(edges).is_connected
    /\ last' = Last("connect", <<>>, NoOutcome("none"))
    /\ UNCHANGED <<cache, ncalls, tasks>>

Disconnect ==
    /\ edges' = disconnect(edges).edges
    /\ is_connected' = disconnect(edges).is_connected
    /\ last' = Last("disconnect", <<>>, NoOutcome("none"))
    /\ UNCHANGED <<cache, ncalls, tasks>>

StoreEdges(batch) ==
    \E out \in {store_edges(edges, is_connected, batch)} :
    /\ Len(out.edges) <= MaxEdges
    /\ edges' = out.edges
    /\ last' = Last("store_edges", <<>>, NoOutcome(out.raised))
    /\ UNCHANGED <<is_connected, cache, ncalls, tasks>>

ProcessQuestion(text) ==
    /\ ncalls < MaxCalls
    /\ \E order \in IterationOrders(edges, from_string(text).question) :
        \E out \in {process_question(edges, is_connected, cache, text, order)} :
            /\ cache' = out.cache
            /\ last' = Last("process_question", text, out)
    /\ ncalls' = ncalls + 1
    /\ UNCHANGED <<edges, is_connected, tasks>>

\* A strategy is asked directly, as the coordinator asks it.
Reason(question) ==
    /\ \E order \in IterationOrders(edges, question) :
        \E metrics \in {reason(edges, is_connected, question,
                                ExecutionContext, order)} :
            last' = Last("reason", <<>>,
                         Outcome(metrics.raised,
                                 QueryResult(metrics.result, 0,
                                             metrics.entities_visited,
                                             metrics.cache_hit, None),
                                 EmptyCache, FALSE, FALSE, FALSE, question,
                                 metrics))
    /\ UNCHANGED <<edges, is_connected, cache, ncalls, tasks>>

Next ==
    \/ Connect
    \/ Disconnect
    \/ \E batch \in Batches : StoreEdges(batch)
    \/ \E text \in Texts : ProcessQuestion(text)

Spec == Init /\ [][Next]_vars

\* Ingestion, then questions put to the strategies.
asked == last.op = "reason"

NextReason ==
    \/ ~asked /\ Connect
    \/ \E e \in EdgeUniverse : ~asked /\ StoreEdges(<<e>>)
    \/ \E question \in Questions : ~asked /\ Reason(question)

SpecReason == Init /\ [][NextReason]_vars

(***************************************************************************)
(* The hierarchy on its own: a chain of five classes with a shortcut and a *)
(* cycle, two INSTANCE_OF edges in a row and one exclusion are ingested,   *)
(* then a SUBCLASS_OF or INSTANCE_OF question is put to its strategy.      *)
(***************************************************************************)
HierarchyEdges ==
    {Edge(SUBCLASS_OF, z, y), Edge(SUBCLASS_OF, y, x), Edge(SUBCLASS_OF, x, v),
     Edge(SUBCLASS_OF, v, p),
     Edge(SUBCLASS_OF, z, x), Edge(SUBCLASS_OF, y, z),
     Edge(INSTANCE_OF, z, y), Edge(INSTANCE_OF, y, x),
     Edge(MUTUALLY_EXCLUSIVE, x, p)}

HierarchyQuestions ==
    {q \in Questions : q.question_type \in {SUBCLASS_OF, INSTANCE_OF}}

NextHierarchy ==
    \/ ~asked /\ Connect
    \/ \E e \in HierarchyEdges : ~asked /\ StoreEdges(<<e>>)
    \/ \E question \in HierarchyQuestions : ~asked /\ Reason(question)

SpecHierarchy == Init /\ [][NextHierarchy]_vars

(***************************************************************************)
(* The parser on its own: texts formatted from a type and two names, and   *)
(* texts of no pattern, are given to Question.from_string.                 *)
(***************************************************************************)
\* Names of one word and of several, some with the words of the patterns.
ParseNames ==
    {x, y,
     <<"x", " ", "y">>,
     <<"a">>,
     <<"x", " ", "a", " ", "y">>,
     <<"x", " ", "a", "n", " ", "y">>,
     <<"t", "y", "p", "e", " ", "o", "f", " ", "y">>,
     <<"a", " ", "t", "y", "p", "e", " ", "o", "f", " ", "y">>,
     <<"c", "o", "n", "s", "i", "d", "e", "r", "e", "d", " ", "t", "o", " ",
       "b", "e", " ", "p">>}

\* The surface form of a question with the given infix of its pattern.
format_with(infix, h, tl) == KwIs \o h \o infix \o tl \o KwQuestionMark

ParseTexts ==
    {format_with(infix, h, tl) :
        infix \in UNION {QUESTION_PATTERNS[t] : t \in DOMAIN QUESTION_PATTERNS},
        h \in ParseNames, tl \in ParseNames}
    \cup Texts

FromString(text) ==
    /\ \E parse \in {from_string(text)} :
        last' = Last("from_string", text,
                     Outcome(parse.raised, NoResult, EmptyCache,
                             parse.raised = "none", FALSE, FALSE,
                             parse.question, Raised("none")))
    /\ UNCHANGED <<edges, is_connected, cache, ncalls, tasks>>

NextParse == \E text \in ParseTexts : FromString(text)

SpecParse == Init /\ [][NextParse]_vars

(***************************************************************************)
(* The traversal on its own: two branches from z, one that reaches v and   *)
(* one that is excluded from v, a cycle, a self-edge and two holders of    *)
(* the attribute p are ingested; then find_path is called as               *)
(* HierarchyReasoner.reason calls it, under a context whose clock may      *)
(* expire, or a HAS_ATTRIBUTE question is put to its strategy.             *)
(***************************************************************************)
TraversalEdges ==
    {Edge(SUBCLASS_OF, z, y), Edge(SUBCLASS_OF, z, x),
     Edge(SUBCLASS_OF, x, v),
     Edge(SUBCLASS_OF, x, z), Edge(SUBCLASS_OF, z, z),
     Edge(MUTUALLY_EXCLUSIVE, y, v), Edge(INSTANCE_OF, y, v),
     Edge(HAS_ATTRIBUTE, x, p), Edge(HAS_ATTRIBUTE, v, p)}

\* The contexts of a traversal: a clock that is never found expired, or is
\* at the first pop, or at the second, and a lower depth cap.
Contexts ==
    {[max_depth |-> max_depth, expired_at |-> T] : T \in {{}, {1}, {2}}}
    \cup {[max_depth |-> max_depth - 1, expired_at |-> {}]}

Starts == {z, y, x}

Targets == {x, v}

AttributeQuestions == {Question(HAS_ATTRIBUTE, h, p) : h \in Starts}

\* find_path is called as the strategies call it: between two distinct
\* entities of the graph.
FindPath(start, target, edge_type, ctx) ==
    /\ start # target
    /\ \E i \in 1..Len(edges) : start \in {edges[i].head_entity,
                                             edges[i].tail_entity}
    /\ \E i \in 1..Len(edges) : target \in {edges[i].head_entity,
                                              edges[i].tail_entity}
    /\ \E metrics \in {find_path(edges, is_connected, start, target,
                                   edge_type, ctx)} :
        last' = [op |-> "find_path", text |-> <<>>,
                 out |-> Outcome(metrics.raised,
                                 QueryResult(metrics.result, 0,
                                             metrics.entities_visited,
                                             metrics.cache_hit, None),
                                 EmptyCache, FALSE, FALSE, FALSE,
                                 Question(edge_type, start, target), metrics),
                 ctx |-> ctx]
    /\ UNCHANGED <<edges, is_connected, cache, ncalls, tasks>>

traversed == last.op \in {"find_path", "reason"}

NextTraversal ==
    \/ ~traversed /\ Connect
    \/ \E e \in TraversalEdges : ~traversed /\ StoreEdges(<<e>>)
    \/ \E start \in Starts, target \in Targets,
          edge_type \in {SUBCLASS_OF, INSTANCE_OF}, ctx \in Contexts :
            ~traversed /\ FindPath(start, target, edge_type, ctx)
    \/ \E question \in AttributeQuestions : ~traversed /\ Reason(question)

SpecTraversal == Init /\ [][NextTraversal]_vars

(***************************************************************************)
(* The coordinator on its own: the edges of the hierarchy are ingested,    *)
(* then one question is put to ReasoningCoordinator.answer_question, of a  *)
(* type with a registered strategy or of a type with none.                 *)
(***************************************************************************)
\* A question type for which no strategy is registered.
UnregisteredType == "UNREGISTERED"

AnswerQuestions ==
    HierarchyQuestions
    \cup {Question(UnregisteredType, h, tl) : h \in {x, y}, tl \in {x, y}}

AnswerQuestion(question) ==
    /\ \E order \in IterationOrders(edges, question) :
        \E out \in {answer_question(edges, is_connected, cache, question,
                                     order)} :
            /\ cache' = out.cache
            /\ last' = Last("answer_question", <<>>, out)
    /\ ncalls' = ncalls + 1
    /\ UNCHANGED <<edges, is_connected, tasks>>

answered == last.op = "answer_question"

NextAnswer ==
    \/ ~answered /\ Connect
    \/ \E e \in HierarchyEdges : ~answered /\ StoreEdges(<<e>>)
    \/ \E question \in AnswerQuestions : ~answered /\ AnswerQuestion(question)

SpecAnswer == Init /\ [][NextAnswer]_vars

(***************************************************************************)
(* Concurrent queries: after ingestion, two answer_question coroutines are *)
(* started on the same question and interleave at their awaits: the cache  *)
(* read, the strategy (whose storage reads find the graph unchanged) and   *)
(* the cache write.                                                        *)
(***************************************************************************)
ConcurrentQuestions ==
    {Question(SUBCLASS_OF, x, y), Question(SUBCLASS_OF, y, x),
     Question(INSTANCE_OF, x, x), Question(HAS_ATTRIBUTE, x, p)}

Tasks == 1..2

Task(pc, question, result, response) ==
    [pc |-> pc, question |-> question, result |-> result,
     response |-> response]

idle == tasks = <<>>

\* Two callers await answer_question(question).
Submit(question) ==
    /\ idle
    /\ tasks' = [t \in Tasks |->
                    Task("get_cached_result", question, "none", NoResult)]
    /\ last' = Last("submit", <<>>, NoOutcome("none"))
    /\ UNCHANGED <<edges, is_connected, cache, ncalls>>

\* await cache_service.get_cached_result: a hit returns; otherwise the
\* strategy is looked up and the coroutine goes on to await its reason.
GetCachedResult(t) ==
    /\ ~idle
    /\ tasks[t].pc = "get_cached_result"
    /\ LET question == tasks[t].question
           cached_result == get_cached_result(cache, question)
       IN  tasks' = [tasks EXCEPT ![t] =
                IF cached_result # "None"
                THEN Task("done", question, cached_result,
                          QueryResult(cached_result, 100, 0, TRUE, None))
                ELSE IF question.question_type \notin DOMAIN strategies
                THEN Task("done", question, DONT_KNOW,
                          create_unknown_result(question))
                ELSE Task("reason", question, "none", NoResult)]
    /\ UNCHANGED <<edges, is_connected, cache, last, ncalls>>

\* await strategy.reason(question, context)
StrategyReason(t) ==
    /\ ~idle
    /\ tasks[t].pc = "reason"
    /\ \E order \in IterationOrders(edges, tasks[t].question) :
        \E metrics \in {reason(edges, is_connected, tasks[t].question,
                                ExecutionContext, order)} :
            tasks' = [tasks EXCEPT ![t] =
                IF metrics.raised # "none"
                THEN Task("raised", tasks[t].question, "none", NoResult)
                ELSE Task("cache_result", tasks[t].question, metrics.result,
                          QueryResult(metrics.result, 95,
                                      metrics.entities_visited,
                                      metrics.cache_hit, None))]
    /\ UNCHANGED <<edges, is_connected, cache, last, ncalls>>

\* await cache_service.cache_result(question, result), then return.
CacheResult(t) ==
    /\ ~idle
    /\ tasks[t].pc = "cache_result"
    /\ cache' = cache_result(cache, tasks[t].question, tasks[t].result)
    /\ tasks' = [tasks EXCEPT ![t].pc = "done"]
    /\ UNCHANGED <<edges, is_connected, last, ncalls>>

NextConcurrent ==
    \/ idle /\ Connect
    \/ \E e \in IngestEdges : idle /\ StoreEdges(<<e>>)
    \/ \E question \in ConcurrentQuestions : Submit(question)
    \/ \E t \in Tasks : GetCachedResult(t)
    \/ \E t \in Tasks : StrategyReason(t)
    \/ \E t \in Tasks : CacheResult(t)

SpecConcurrent == Init /\ [][NextConcurrent]_vars

(***************************************************************************)
(* What the properties speak of.                                           *)
(***************************************************************************)
HasEdge(t, h, tl) == \E i \in 1..Len(edges) : edge_key(edges[i]) = <<t, h, tl>>

Known(e) == \E i \in 1..Len(edges) :
                edges[i].head_entity = e \/ edges[i].tail_entity = e

\* A chain of at least one and at most n SUBCLASS_OF edges from h to tl.
RECURSIVE SubclassChain(_, _, _)
SubclassChain(h, tl, n) ==
    /\ n >= 1
    /\ \/ HasEdge(SUBCLASS_OF, h, tl)
       \/ \E m \in Entities : /\ HasEdge(SUBCLASS_OF, h, m)
                              /\ SubclassChain(m, tl, n - 1)

\* A chain of SUBCLASS_OF edges of any length.
IsDescendant(h, tl) == SubclassChain(h, tl, Cardinality(Entities))

\* A path of at least one and at most n edges that are not
\* MUTUALLY_EXCLUSIVE edges.
RECURSIVE PathWithin(_, _, _)
PathWithin(h, tl, n) ==
    /\ n >= 1
    /\ \E t \in EdgeType \ {MUTUALLY_EXCLUSIVE} :
        \/ HasEdge(t, h, tl)
        \/ \E m \in Entities : HasEdge(t, h, m) /\ PathWithin(m, tl, n - 1)

HasPath(h, tl) == PathWithin(h, tl, Cardinality(Entities))

\* The last operation put a question of the type to its strategy.
Reasoned(question_type) ==
    /\ last.op = "reason"
    /\ last.out.question.question_type = question_type

\* The last operation put the question to its strategy.
ReasonedOn(question) ==
    /\ last.op = "reason"
    /\ last.out.question = question

AskedHead == last.out.question.head

AskedTail == last.out.question.tail

Answer == last.out.response.result

(***************************************************************************)
(* C1. Attribute inheritance through an instance: when the graph holds     *)
(* (A HAS_ATTRIBUTE P), (B SUBCLASS_OF A) and (C INSTANCE_OF B), the       *)
(* HAS_ATTRIBUTE question (C, P) put to AttributeReasoner.reason is        *)
(* answered YES.                                                           *)
(***************************************************************************)
C1_InstanceInheritsAttribute ==
    Reasoned(HAS_ATTRIBUTE) =>
        \A A \in Entities, B \in Entities :
            ( /\ HasEdge(HAS_ATTRIBUTE, A, AskedTail)
              /\ HasEdge(SUBCLASS_OF, B, A)
              /\ HasEdge(INSTANCE_OF, AskedHead, B) )
            => Answer = YES

(***************************************************************************)
(* C2, as claimed. Attribute inheritance through a subclass: when the      *)
(* graph holds (A HAS_ATTRIBUTE P) and B reaches A through a chain of one  *)
(* or more SUBCLASS_OF edges no longer than max_depth, the HAS_ATTRIBUTE   *)
(* question (B, P) is answered YES.                                        *)
(***************************************************************************)
C2_SubclassInheritsAttribute ==
    Reasoned(HAS_ATTRIBUTE) =>
        \A A \in Entities :
            ( /\ HasEdge(HAS_ATTRIBUTE, A, AskedTail)
              /\ SubclassChain(AskedHead, A, max_depth) )
            => Answer = YES

(***************************************************************************)
(* C2, amended. The same, for an attribute holder A that is the tail of no *)
(* MUTUALLY_EXCLUSIVE edge: the HAS_ATTRIBUTE question (B, P) is answered  *)
(* YES.                                                                    *)
(***************************************************************************)
C2_SubclassInheritsAttributeUnlessExcluded ==
    Reasoned(HAS_ATTRIBUTE) =>
        \A A \in Entities :
            ( /\ HasEdge(HAS_ATTRIBUTE, A, AskedTail)
              /\ SubclassChain(AskedHead, A, max_depth)
              /\ \A e \in Entities : ~HasEdge(MUTUALLY_EXCLUSIVE, e, A) )
            => Answer = YES

\* A HAS_ATTRIBUTE question answered through a chain of several edges.
C2_Witness ==
    /\ HasEdge(HAS_ATTRIBUTE, x, p)
    /\ HasEdge(SUBCLASS_OF, z, y)
    /\ HasEdge(SUBCLASS_OF, y, x)
    /\ ~HasEdge(SUBCLASS_OF, z, x)
    /\ ReasonedOn(Question(HAS_ATTRIBUTE, z, p))
    /\ Answer = YES

(***************************************************************************)
(* C3, as claimed. Mutual exclusivity: when the graph holds                *)
(* (A MUTUALLY_EXCLUSIVE B), for every D that reaches A through a chain of *)
(* SUBCLASS_OF edges the SUBCLASS_OF question (D, B) is answered NO,       *)
(* whatever other edges the graph holds.                                   *)
(***************************************************************************)
C3_DescendantOfExcludedIsNo ==
    Reasoned(SUBCLASS_OF) =>
        \A A \in Entities :
            ( /\ HasEdge(MUTUALLY_EXCLUSIVE, A, AskedTail)
              /\ IsDescendant(AskedHead, A) )
            => Answer = NO

(***************************************************************************)
(* C3, amended. When the graph holds (A MUTUALLY_EXCLUSIVE B), for every   *)
(* D other than B that reaches A through a chain of at most max_depth      *)
(* SUBCLASS_OF edges and does not reach B through SUBCLASS_OF edges, the   *)
(* SUBCLASS_OF question (D, B) is answered NO.                             *)
(***************************************************************************)
C3_DescendantWithinDepthIsNo ==
    Reasoned(SUBCLASS_OF) =>
        \A A \in Entities :
            ( /\ HasEdge(MUTUALLY_EXCLUSIVE, A, AskedTail)
              /\ SubclassChain(AskedHead, A, max_depth)
              /\ AskedHead # AskedTail
              /\ ~IsDescendant(AskedHead, AskedTail) )
            => Answer = NO

\* A descendant two edges below the excluded class is told NO.
C3_Witness ==
    /\ HasEdge(MUTUALLY_EXCLUSIVE, v, p)
    /\ HasEdge(SUBCLASS_OF, y, x)
    /\ HasEdge(SUBCLASS_OF, x, v)
    /\ ReasonedOn(Question(SUBCLASS_OF, y, p))
    /\ Answer = NO

C5_SubclassReflexive ==
    (Reasoned(SUBCLASS_OF) /\ AskedHead = AskedTail /\ Known(AskedHead)) =>
        /\ Answer = YES
        /\ last.out.response.entities_visited = 0
        /\ last.out.visited = {}

\* The reflexive question on an entity with a MUTUALLY_EXCLUSIVE self-edge.
C5_Witness ==
    /\ HasEdge(MUTUALLY_EXCLUSIVE, x, x)
    /\ ReasonedOn(Question(SUBCLASS_OF, x, x))
    /\ Answer = YES

(***************************************************************************)
(* C6. Non-reflexivity of instance: for every X the INSTANCE_OF question   *)
(* (X, X) is answered NO, also when the graph holds (X INSTANCE_OF X).     *)
(***************************************************************************)
C6_InstanceNotReflexive ==
    (Reasoned(INSTANCE_OF) /\ AskedHead = AskedTail) => Answer = NO

\* The reflexive question on an entity with an INSTANCE_OF self-edge.
C6_Witness ==
    /\ HasEdge(INSTANCE_OF, z, z)
    /\ ReasonedOn(Question(INSTANCE_OF, z, z))
    /\ Answer = NO

(***************************************************************************)
(* What the properties of process_question speak of.                       *)
(***************************************************************************)
\* This step is a call of process_question.
Asks == ncalls' = ncalls + 1

Parses(text) == from_string(text).raised = "none"

\* The text parses to a question over entities the store knows.
OverKnownEntities(text) ==
    /\ Parses(text)
    /\ Known(from_string(text).question.head)
    /\ Known(from_string(text).question.tail)

Response == last.out.response

\* The answers the strategy computes on the graph as it is now.
FreshAnswers(question) ==
    {reason(edges, is_connected, question, ExecutionContext, order).result :
        order \in IterationOrders(edges, question)}

(***************************************************************************)
(* C7. Validation precedes reasoning: when the validator finds the head or *)
(* the tail of a parsed question unknown to the store, process_question    *)
(* returns DONT_KNOW with confidence 0, entities_visited 0 and the         *)
(* explanation "Entities not found", whatever the question type and also   *)
(* when head = tail; the coordinator is not invoked and the cache is left  *)
(* as it was.                                                              *)
(***************************************************************************)
C7_ValidationPrecedesReasoning ==
    [][ ( /\ Asks
          /\ Parses(last'.text)
          /\ is_connected
          /\ ~OverKnownEntities(last'.text) )
        => /\ last'.out.raised = "none"
           /\ last'.out.response =
                QueryResult(DONT_KNOW, 0, 0, FALSE,
                            EntitiesNotFound(last'.out.question.head,
                                             last'.out.question.tail))
           /\ ~last'.out.coordinated
           /\ cache' = cache ]_vars

\* The reflexive question about an entity no edge of a filled store names.
C7_Witness ==
    /\ last.op = "process_question"
    /\ last.text = format(SUBCLASS_OF, w, w)
    /\ edges # <<>>
    /\ Response.result = DONT_KNOW
    /\ Response.explanation = EntitiesNotFound(w, w)
    /\ cache = EmptyCache

(***************************************************************************)
(* C8, as claimed. Cache idempotence: for every question text, a second    *)
(* call right after a call with the same text, on the same graph, returns  *)
(* the same result value and reports cache_hit = true and                  *)
(* entities_visited = 0.                                                   *)
(***************************************************************************)
C8_SecondAskIsCacheHit ==
    [][ ( /\ Asks
          /\ last.op = "process_question"
          /\ last'.text = last.text )
        => /\ last.out.raised = "none"
           /\ last'.out.raised = "none"
           /\ last'.out.response.result = last.out.response.result
           /\ last'.out.response.cache_hit
           /\ last'.out.response.entities_visited = 0 ]_vars

(***************************************************************************)
(* C8, amended. The same, for every question text that parses to a         *)
(* question whose head and tail are known to the graph.                    *)
(***************************************************************************)
C8_SecondAskOverKnownEntitiesIsCacheHit ==
    [][ ( /\ Asks
          /\ last.op = "process_question"
          /\ last'.text = last.text
          /\ OverKnownEntities(last.text) )
        => /\ last.out.raised = "none"
           /\ last'.out.raised = "none"
           /\ last'.out.response.result = last.out.response.result
           /\ last'.out.response.cache_hit
           /\ last'.out.response.entities_visited = 0 ]_vars

\* A second call answered from the cache.
C8_Witness ==
    /\ last.op = "process_question"
    /\ ncalls = 2
    /\ OverKnownEntities(last.text)
    /\ Response.cache_hit
    /\ Response.entities_visited = 0
    /\ Response.result = DONT_KNOW

(***************************************************************************)
(* C9. The cache is invalidated on every graph mutation: whatever queries  *)
(* and insertions came before, a query over known entities returns the     *)
(* answer computed on the graph as it is when the query is made, never one *)
(* cached before an insertion.                                             *)
(***************************************************************************)
C9_AnswersFollowTheGraph ==
    ( /\ last.op = "process_question"
      /\ OverKnownEntities(last.text)
      /\ last.out.raised = "none" )
    => Response.result \in FreshAnswers(last.out.question)

(***************************************************************************)
(* C10. Parse failure is reified: for a text that none of the three        *)
(* patterns matches in full, process_question raises nothing and returns   *)
(* DONT_KNOW with confidence 0 and an explanation.                         *)
(***************************************************************************)
C10_ParseFailureIsReified ==
    (last.op = "process_question" /\ ~Parses(last.text))
    => /\ last.out.raised = "none"
       /\ Response.result = DONT_KNOW
       /\ Response.confidence = 0
       /\ Response.explanation # None

(***************************************************************************)
(* C11. Storage failure is reified: when a storage lookup fails during     *)
(* process_question (here: the store is not connected, so the lookup of    *)
(* the entities raises), the caller receives a QueryResult with DONT_KNOW  *)
(* and an explanation, and process_question raises nothing.                *)
(***************************************************************************)
C11_StorageFailureIsReified ==
    (last.op = "process_question" /\ Parses(last.text) /\ ~is_connected)
    => /\ last.out.raised = "none"
       /\ Response.result = DONT_KNOW
       /\ Response.explanation # None

(***************************************************************************)
(* What the properties of the parser speak of.                             *)
(***************************************************************************)
Occurs(s, text) == \E k \in 1..Len(text) : StartsAt(text, s, k)

\* The word stands in the name between spaces or the ends of the name.
HasWord(name, word) ==
    Occurs(<<" ">> \o word \o <<" ">>, <<" ">> \o name \o <<" ">>)

\* The text is the surface form of (QuestionType[k], h, tl).
IsFormatOf(text, k, h, tl) ==
    \E infix \in QUESTION_PATTERNS[QuestionType[k]] :
        text = format_with(infix, h, tl)

\* Names whose surface forms no other pattern and no other split matches.
Unambiguous(h, tl) ==
    /\ \A name \in {h, tl} :
        ~HasWord(name, <<"a">>) /\ ~HasWord(name, <<"a", "n">>)
    /\ ~StartsAt(tl, <<"t", "y", "p", "e", " ", "o", "f", " ">>, 1)
    /\ ~Occurs(KwConsideredToBe, <<" ">> \o tl)

C13_InstanceHasNoInstances ==
    ( /\ Reasoned(INSTANCE_OF)
      /\ Known(AskedHead) /\ Known(AskedTail)
      /\ \E c \in Entities : HasEdge(INSTANCE_OF, AskedTail, c)
      /\ \A e \in Entities : ~HasEdge(INSTANCE_OF, e, AskedTail) )
    => Answer = NO

(***************************************************************************)
(* C14. An entity does not have itself as attribute: for every entity X    *)
(* known to the graph the HAS_ATTRIBUTE question (X, X) is answered NO.    *)
(***************************************************************************)
C14_NotItsOwnAttribute ==
    (Reasoned(HAS_ATTRIBUTE) /\ AskedHead = AskedTail /\ Known(AskedHead))
    => Answer = NO

(***************************************************************************)
(* C15. A HAS_ATTRIBUTE question over known entities whose tail is the     *)
(* tail of no HAS_ATTRIBUTE edge, or whose head is the tail of one, is     *)
(* answered NO.                                                            *)
(***************************************************************************)
C15_NotAnAttributeIsNo ==
    ( /\ Reasoned(HAS_ATTRIBUTE)
      /\ Known(AskedHead) /\ Known(AskedTail)
      /\ \/ \A e \in Entities : ~HasEdge(HAS_ATTRIBUTE, e, AskedTail)
         \/ \E e \in Entities : HasEdge(HAS_ATTRIBUTE, e, AskedHead) )
    => Answer = NO

\* A chain of at least one and at most n SUBCLASS_OF or INSTANCE_OF edges
\* from h up to tl.
RECURSIVE ClimbsWithin(_, _, _)
ClimbsWithin(h, tl, n) ==
    /\ n >= 1
    /\ \E t \in {SUBCLASS_OF, INSTANCE_OF} :
        \/ HasEdge(t, h, tl)
        \/ \E m \in Entities : HasEdge(t, h, m) /\ ClimbsWithin(m, tl, n - 1)

Climbs(h, tl) == ClimbsWithin(h, tl, Cardinality(Entities))

(***************************************************************************)
(* C16. Attributes never inherit upward: a HAS_ATTRIBUTE question          *)
(* (head, P) is answered YES only if head holds P itself or climbs the     *)
(* hierarchy to a holder of P; and when P is held only by strict           *)
(* descendants of head, the answer is DONT_KNOW.                           *)
(***************************************************************************)
C16_NoUpwardInheritance ==
    Reasoned(HAS_ATTRIBUTE) =>
        /\ Answer = YES =>
            \E A \in Entities :
                /\ HasEdge(HAS_ATTRIBUTE, A, AskedTail)
                /\ A = AskedHead \/ Climbs(AskedHead, A)
        /\ ( /\ \E A \in Entities : HasEdge(HAS_ATTRIBUTE, A, AskedTail)
             /\ \A A \in Entities :
                    HasEdge(HAS_ATTRIBUTE, A, AskedTail)
                    => /\ A # AskedHead
                       /\ Climbs(A, AskedHead)
                       /\ ~Climbs(AskedHead, A) )
           => Answer = DONT_KNOW

\* The superclass of the only holder of the attribute is asked about it.
C16_Witness ==
    /\ HasEdge(HAS_ATTRIBUTE, x, p)
    /\ HasEdge(SUBCLASS_OF, x, v)
    /\ ~Climbs(v, x)
    /\ ReasonedOn(Question(HAS_ATTRIBUTE, v, p))
    /\ Answer = DONT_KNOW

(***************************************************************************)
(* What the properties of the traversal speak of.                          *)
(***************************************************************************)
NoExclusions ==
    \A i \in 1..Len(edges) : edges[i].edge_type # MUTUALLY_EXCLUSIVE

\* The last operation put a question of the type, with head # tail, to the
\* hierarchy reasoner on a connected store: find_path ran.
Traversed(question_type) ==
    /\ Reasoned(question_type)
    /\ is_connected
    /\ AskedHead # AskedTail

\* A chain of at least one and at most n SUBCLASS_OF edges from h to tl on
\* which no edge leaves the entity a.
RECURSIVE SubclassChainAvoiding(_, _, _, _)
SubclassChainAvoiding(h, tl, n, a) ==
    /\ n >= 1
    /\ h # a
    /\ \/ HasEdge(SUBCLASS_OF, h, tl)
       \/ \E m \in Entities : /\ HasEdge(SUBCLASS_OF, h, m)
                              /\ SubclassChainAvoiding(m, tl, n - 1, a)

\* A path of at least one and at most n edges that find_path accepts for the
\* edge type: SUBCLASS_OF edges, after one INSTANCE_OF edge out of h when the
\* type is INSTANCE_OF.
AcceptedPath(h, tl, edge_type, n) ==
    IF edge_type = SUBCLASS_OF THEN SubclassChain(h, tl, n)
    ELSE /\ n >= 1
         /\ \E c \in Entities :
                /\ HasEdge(INSTANCE_OF, h, c)
                /\ c = tl \/ SubclassChain(c, tl, n - 1)

(***************************************************************************)
(* C17, as claimed. INSTANCE_OF is a single hop, then pure hierarchy: on a *)
(* graph without MUTUALLY_EXCLUSIVE edges and with head # tail, the        *)
(* INSTANCE_OF traversal answers YES if and only if there is an edge       *)
(* (head INSTANCE_OF c) and a chain of zero or more SUBCLASS_OF edges from *)
(* c to tail within the depth bound (the chain is given max_depth edges,   *)
(* the most the traversal follows after the first hop).                    *)
(***************************************************************************)
C17_InstanceIsOneHopThenHierarchy ==
    (Traversed(INSTANCE_OF) /\ NoExclusions) =>
        /\ Answer = YES <=>
            \E c \in Entities :
                /\ HasEdge(INSTANCE_OF, AskedHead, c)
                /\ c = AskedTail \/ SubclassChain(c, AskedTail, max_depth)
        /\ Answer \in {YES, DONT_KNOW}

(***************************************************************************)
(* C17, amended. The same, for a chain of at most max_depth SUBCLASS_OF    *)
(* edges from c to tail that does not pass through head: the SUBCLASS_OF   *)
(* edges out of head are never followed.                                   *)
(***************************************************************************)
C17_InstanceIsOneHopThenHierarchyPastHead ==
    (Traversed(INSTANCE_OF) /\ NoExclusions) =>
        /\ Answer = YES <=>
            \E c \in Entities :
                /\ HasEdge(INSTANCE_OF, AskedHead, c)
                /\ \/ c = AskedTail
                   \/ SubclassChainAvoiding(c, AskedTail, max_depth, AskedHead)
        /\ Answer \in {YES, DONT_KNOW}

\* An instance of y is found to be an instance of the superclass of y's
\* superclass: one INSTANCE_OF edge, then max_depth SUBCLASS_OF edges.
C17_Witness ==
    /\ edges = <<Edge(INSTANCE_OF, z, y), Edge(SUBCLASS_OF, y, x),
                 Edge(SUBCLASS_OF, x, v)>>
    /\ ReasonedOn(Question(INSTANCE_OF, z, v))
    /\ Answer = YES

(***************************************************************************)
(* C18, as claimed. SUBCLASS_OF is transitive: on a graph without          *)
(* MUTUALLY_EXCLUSIVE edges, the SUBCLASS_OF question (head, tail) with    *)
(* head # tail is answered YES if and only if tail is reached from head    *)
(* through one or more SUBCLASS_OF edges, at most max_depth of them, and   *)
(* DONT_KNOW otherwise.                                                    *)
(***************************************************************************)
C18_SubclassIsTransitive ==
    (Traversed(SUBCLASS_OF) /\ NoExclusions) =>
        /\ Answer = YES <=> SubclassChain(AskedHead, AskedTail, max_depth)
        /\ Answer \in {YES, DONT_KNOW}

(***************************************************************************)
(* C18, amended. The same, with the bound the traversal keeps: tail is     *)
(* reached through at most max_depth + 1 SUBCLASS_OF edges.                *)
(***************************************************************************)
C18_SubclassIsTransitiveWithinReach ==
    (Traversed(SUBCLASS_OF) /\ NoExclusions) =>
        /\ Answer = YES <=> SubclassChain(AskedHead, AskedTail, max_depth + 1)
        /\ Answer \in {YES, DONT_KNOW}

\* A class four SUBCLASS_OF edges above the head is out of reach, with an
\* INSTANCE_OF edge at hand that is not followed.
C18_Witness ==
    /\ HasEdge(SUBCLASS_OF, z, y)
    /\ HasEdge(SUBCLASS_OF, y, x)
    /\ HasEdge(SUBCLASS_OF, x, v)
    /\ HasEdge(SUBCLASS_OF, v, p)
    /\ ReasonedOn(Question(SUBCLASS_OF, z, p))
    /\ Answer = DONT_KNOW

(***************************************************************************)
(* C20, as claimed. max_depth bounds graph hops: the traversal answers YES *)
(* only when the target is reached by a path of at most max_depth accepted *)
(* edges from the start; a target whose shortest accepted path has more    *)
(* than max_depth edges is answered DONT_KNOW.                             *)
(***************************************************************************)
C20_MaxDepthBoundsHops ==
    \A t \in {SUBCLASS_OF, INSTANCE_OF} :
        Traversed(t) =>
            /\ Answer = YES => AcceptedPath(AskedHead, AskedTail, t, max_depth)
            /\ ( /\ AcceptedPath(AskedHead, AskedTail, t, Cardinality(Entities))
                 /\ ~AcceptedPath(AskedHead, AskedTail, t, max_depth) )
               => Answer = DONT_KNOW

(***************************************************************************)
(* C20, amended. The traversal answers YES only when the target is reached *)
(* by a path of at most max_depth + 1 accepted edges from the start; a     *)
(* target whose shortest accepted path has more than max_depth + 1 edges   *)
(* is answered DONT_KNOW, or NO when a visited entity has a                *)
(* MUTUALLY_EXCLUSIVE edge to it.                                          *)
(***************************************************************************)
C20_MaxDepthPlusOneBoundsHops ==
    \A t \in {SUBCLASS_OF, INSTANCE_OF} :
        Traversed(t) =>
            /\ Answer = YES =>
                AcceptedPath(AskedHead, AskedTail, t, max_depth + 1)
            /\ ( /\ AcceptedPath(AskedHead, AskedTail, t, Cardinality(Entities))
                 /\ ~AcceptedPath(AskedHead, AskedTail, t, max_depth + 1) )
               => \/ Answer = DONT_KNOW
                  \/ /\ Answer = NO
                     /\ \E e \in last.out.visited :
                            HasEdge(MUTUALLY_EXCLUSIVE, e, AskedTail)

\* A target max_depth + 2 accepted edges away, one INSTANCE_OF edge and three
\* SUBCLASS_OF edges, is not reached.
C20_Witness ==
    /\ edges = <<Edge(INSTANCE_OF, z, y), Edge(SUBCLASS_OF, y, x),
                 Edge(SUBCLASS_OF, x, v), Edge(SUBCLASS_OF, v, p)>>
    /\ ReasonedOn(Question(INSTANCE_OF, z, p))
    /\ Answer = DONT_KNOW
    /\ last.out.response.entities_visited = max_depth + 2

(***************************************************************************)
(* C19. Edge deduplication: after every store_edges on a connected store,  *)
(* also of a batch that holds a triple more than once, no two stored edges *)
(* share an (edge_type, head, tail) triple, the stored edge of each triple *)
(* of the batch is the latest write of that triple, and storing the same   *)
(* batch again leaves the stored edges as they are.                        *)
(***************************************************************************)
C19_EdgesAreDeduplicated ==
    [][ \A batch \in Batches :
            (is_connected /\ StoreEdges(batch)) =>
                /\ \A i \in 1..Len(edges'), j \in 1..Len(edges') :
                        edge_key(edges'[i]) = edge_key(edges'[j]) => i = j
                /\ \A k \in 1..Len(batch), i \in 1..Len(edges') :
                        edge_key(edges'[i]) = edge_key(batch[k]) =>
                            edges'[i] =
                                batch[Max({n \in 1..Len(batch) :
                                    edge_key(batch[n]) = edge_key(batch[k])})]
                /\ store_edges(edges', TRUE, batch).edges = edges' ]_vars


\* The last operation was a call of find_path that returned.
FoundPath == last.op = "find_path" /\ last.out.raised = "none"

\* The depth of the last entity the traversal dequeued.
LastDequeuedDepth == last.out.dequeued[Len(last.out.dequeued)].depth

(***************************************************************************)
(* C21. The depth_reached metric: in every result of find_path,            *)
(* depth_reached is the depth of the last entity dequeued, for YES, NO,    *)
(* queue exhaustion and the depth cap alike, and it is ctx.max_depth when  *)
(* the traversal stopped on its timeout.                                   *)
(***************************************************************************)
C21_DepthReachedIsLastDequeuedDepth ==
    FoundPath =>
        last.out.depth_reached =
            IF last.out.stopped = "timeout"
            THEN last.ctx.max_depth
            ELSE LastDequeuedDepth


\* The last operation was a call of answer_question that returned.
Answered == last.op = "answer_question" /\ last.out.raised = "none"

(***************************************************************************)
(* C22. When a traversal stops on the depth cap or on its timeout, the     *)
(* QueryResult returned by answer_question has the result DONT_KNOW and    *)
(* carries the depth_reached that the traversal computed.                  *)
(***************************************************************************)
C22_DepthCapIsReportedWithDepth ==
    (Answered /\ last.out.stopped \in {"depth", "timeout"}) =>
        /\ last.out.response.result = DONT_KNOW
        /\ last.out.response.depth_reached = last.out.depth_reached


\* The last operation was a call of process_question.
Processed == last.op = "process_question"

\* The confidence of the QueryResults that process_question returns: 95 after
\* a strategy invocation, 0 with DONT_KNOW after a validation failure, 100
\* on a cache hit, and no other value.
ReturnedConfidences ==
    (Processed /\ last.out.raised = "none") =>
        /\ Response.confidence \in {0, 95, 100}
        /\ last.out.strategy_result # "none" => Response.confidence = 95
        /\ Response.cache_hit => Response.confidence = 100
        /\ ~last.out.validated =>
            Response.result = DONT_KNOW /\ Response.confidence = 0

(***************************************************************************)
(* C23. Confidence values: a QueryResult produced by a strategy invocation *)
(* has confidence 0.95, a question that fails validation or parsing is     *)
(* answered by a DONT_KNOW QueryResult of confidence 0.0, a cache hit has  *)
(* confidence 1.0, and no other confidence value is returned.              *)
(***************************************************************************)
C23_ConfidenceValues ==
    /\ ReturnedConfidences
    /\ (Processed /\ ~Parses(last.text)) =>
        /\ last.out.raised = "none"
        /\ Response.result = DONT_KNOW
        /\ Response.confidence = 0


\* The k-th entity the traversal dequeued was expanded: the loop did not
\* break on its depth or on the clock.
Expanded(k) ==
    \/ k < Len(last.out.dequeued)
    \/ last.out.stopped \notin {"depth", "timeout"}

(***************************************************************************)
(* C24. Mutual exclusivity is checked before path acceptance at each       *)
(* dequeued entity: when an entity that find_path expands has a            *)
(* MUTUALLY_EXCLUSIVE edge to the target, find_path returns NO at that     *)
(* entity, also when the entity has an accepted edge (SUBCLASS_OF, or      *)
(* INSTANCE_OF on the first hop) to the target, and also when the entity   *)
(* is the start, for SUBCLASS_OF and INSTANCE_OF traversals alike.         *)
(***************************************************************************)
C24_ExclusionPrecedesAcceptance ==
    FoundPath =>
        \A k \in 1..Len(last.out.dequeued) :
            ( /\ Expanded(k)
              /\ HasEdge(MUTUALLY_EXCLUSIVE, last.out.dequeued[k].entity,
                         AskedTail) )
            => /\ Answer = NO
               /\ k = Len(last.out.dequeued)

\* The start of an INSTANCE_OF traversal has an INSTANCE_OF edge and a
\* MUTUALLY_EXCLUSIVE edge to the target, and the answer is NO.
C24_Witness ==
    /\ FoundPath
    /\ last.out.question = Question(INSTANCE_OF, y, v)
    /\ HasEdge(INSTANCE_OF, y, v)
    /\ HasEdge(MUTUALLY_EXCLUSIVE, y, v)
    /\ last.out.stopped = "excluded"
    /\ Answer = NO


\* The stores that hold the edges of this one with two neighbours
\* exchanged.  Every order of the same edges is reached by such exchanges,
\* and each is the store of a reachable state.
Exchanged ==
    {[k \in 1..Len(edges) |->
        IF k = i THEN edges[i + 1]
        ELSE IF k = i + 1 THEN edges[i] ELSE edges[k]] :
        i \in 1..(Len(edges) - 1)}

\* The answers to the last question on the store E, for every order in
\* which the attribute holders can be iterated.
AnswersOn(E) ==
    IF last.op = "find_path"
    THEN {find_path(E, is_connected, AskedHead, AskedTail,
                    last.out.question.question_type, last.ctx).result}
    ELSE {reason(E, is_connected, last.out.question, ExecutionContext,
                 order).result :
            order \in IterationOrders(E, last.out.question)}

\* The last operation was a traversal or an attribute question that returned,
\* and no clock expired.
AnsweredInTime ==
    /\ traversed
    /\ last.out.raised = "none"
    /\ last.op = "find_path" => last.ctx.expired_at = {}

\* The entities the last question looks for: the target of the traversal, or
\* the holders of the attribute.
Sought ==
    IF last.op = "find_path" THEN {AskedTail}
    ELSE {h \in Entities : HasEdge(HAS_ATTRIBUTE, h, AskedTail)}

(***************************************************************************)
(* C25, as claimed. Answers are pure functions of the graph snapshot: for  *)
(* a fixed set of edges and a fixed question the result is the same for    *)
(* every order in which the store returns the outgoing edges of an entity  *)
(* and the incoming edges of an attribute, also when one branch from head  *)
(* reaches a MUTUALLY_EXCLUSIVE edge to tail and another branch at the     *)
(* same depth reaches tail by an accepted edge.                            *)
(***************************************************************************)
C25_AnswerIsOrderIndependent ==
    AnsweredInTime =>
        \A E \in Exchanged : AnswersOn(E) = {Answer}

(***************************************************************************)
(* C25, amended. For a fixed store and a fixed question the result is the  *)
(* same for every order in which the attribute holders are iterated; and   *)
(* when no MUTUALLY_EXCLUSIVE edge leads to the target of the traversal    *)
(* (to a holder of the attribute), the result is the same for every order  *)
(* in which the store returns its edges.                                   *)
(***************************************************************************)
C25_AnswerIsOrderIndependentWithoutExclusion ==
    AnsweredInTime =>
        /\ AnswersOn(edges) = {Answer}
        /\ (\A e \in Entities, t \in Sought :
                ~HasEdge(MUTUALLY_EXCLUSIVE, e, t))
            => \A E \in Exchanged : AnswersOn(E) = {Answer}

\* Two holders of the attribute, of which z reaches one: YES in either order
\* of the holders and of the edges.
C25_Witness ==
    /\ ReasonedOn(Question(HAS_ATTRIBUTE, z, p))
    /\ HasEdge(HAS_ATTRIBUTE, x, p)
    /\ HasEdge(HAS_ATTRIBUTE, v, p)
    /\ HasEdge(SUBCLASS_OF, z, x)
    /\ ~HasEdge(SUBCLASS_OF, x, v)
    /\ Len(edges) = 3
    /\ Answer = YES


\* Both coroutines have returned.
BothDone == ~idle /\ \A t \in Tasks : tasks[t].pc = "done"

C27_UnknownQuestionType ==
    (answered /\ last.out.question.question_type \notin DOMAIN strategies) =>
        /\ last.out.raised = "none"
        /\ last.out.response =
            QueryResult(DONT_KNOW, 0, 0, FALSE, <<"Unknown question type">>)
        /\ last.out.strategy_result = "none"
        /\ last.out.dequeued = <<>>
        /\ cache = EmptyCache

\* A question of a type without a strategy was answered.
C27_Witness ==
    /\ Answered
    /\ last.out.question = Question(UnregisteredType, x, y)
    /\ Known(x)
    /\ Known(y)
    /\ last.out.response.explanation = <<"Unknown question type">>


\* The entities_visited of the hierarchy sub-queries that an attribute
\* question runs from the k-th holder of the order on: one sub-query for
\* each holder, up to the first that answers YES.
RECURSIVE SubQueryVisits(_, _)
SubQueryVisits(order, k) ==
    IF k > Len(order) THEN 0
    ELSE LET sub == HierarchyReasoner_reason(
                        edges, is_connected,
                        Question(SUBCLASS_OF, AskedHead, order[k]),
                        ExecutionContext)
         IN  sub.entities_visited
             + (IF sub.result = YES THEN 0 ELSE SubQueryVisits(order, k + 1))

(***************************************************************************)
(* C28. entities_visited counts pop events: the entities_visited returned  *)
(* by find_path is the number of entities dequeued during the traversal,   *)
(* the dequeue that triggers the depth or timeout break included; and the  *)
(* value returned by AttributeReasoner.reason is 1 for its incoming-edge   *)
(* lookup plus the sum of the entities_visited of every hierarchy          *)
(* sub-query it ran.                                                       *)
(***************************************************************************)
C28_EntitiesVisitedCountsPops ==
    /\ FoundPath =>
        /\ Response.entities_visited = Len(last.out.dequeued)
        /\ last.out.stopped = "depth" =>
            LastDequeuedDepth > last.ctx.max_depth
        /\ last.out.stopped = "timeout" =>
            Response.entities_visited \in last.ctx.expired_at
    /\ (Reasoned(HAS_ATTRIBUTE) /\ last.out.raised = "none") =>
        IF HasEdge(HAS_ATTRIBUTE, AskedHead, AskedTail)
        THEN Response.entities_visited = 1
        ELSE \E order \in IterationOrders(edges, last.out.question) :
                Response.entities_visited = 1 + SubQueryVisits(order, 1)

\* An attribute question that ran a sub-query of two pops for each of two
\* holders.
C28_Witness ==
    /\ ReasonedOn(Question(HAS_ATTRIBUTE, z, p))
    /\ edges = <<Edge(HAS_ATTRIBUTE, x, p), Edge(HAS_ATTRIBUTE, v, p),
                 Edge(SUBCLASS_OF, z, y)>>
    /\ Answer = DONT_KNOW
    /\ Response.entities_visited = 5


\* The entities of the graph: the heads and tails of the stored edges.
GraphEntities ==
    {edges[i].head_entity : i \in 1..Len(edges)}
    \cup {edges[i].tail_entity : i \in 1..Len(edges)}

\* No element occurs twice in the sequence.
Distinct(seq) ==
    \A i \in 1..Len(seq), j \in 1..Len(seq) : seq[i] = seq[j] => i = j

(***************************************************************************)
(* C29. Termination of the traversal: on every finite graph, including     *)
(* graphs with SUBCLASS_OF cycles and self-edges, find_path terminates;    *)
(* at every loop turn every queued entity is in the visited set, no entity *)
(* is enqueued twice, each entity is dequeued at most once, and            *)
(* entities_visited never exceeds the number of entities of the graph.     *)
(***************************************************************************)
C29_TraversalTerminates ==
    (last.op = "find_path" /\ is_connected) =>
        /\ last.out.raised = "none"
        /\ Answer \in QuestionResult
        /\ last.out.queued_in_visited
        /\ Distinct(last.out.enqueued)
        /\ Distinct([k \in 1..Len(last.out.dequeued) |->
                        last.out.dequeued[k].entity])
        /\ \A k \in 1..Len(last.out.dequeued) :
                last.out.dequeued[k].entity = last.out.enqueued[k]
        /\ Response.entities_visited <= Cardinality(GraphEntities)

\* A traversal over a self-edge and a cycle: z is enqueued once though two
\* edges lead back to it.
C29_Witness ==
    /\ FoundPath
    /\ HasEdge(SUBCLASS_OF, z, z)
    /\ HasEdge(SUBCLASS_OF, z, x)
    /\ HasEdge(SUBCLASS_OF, x, z)
    /\ HasEdge(SUBCLASS_OF, x, v)
    /\ last.out.question = Question(SUBCLASS_OF, z, v)
    /\ last.ctx = ExecutionContext
    /\ last.out.enqueued = <<z, x>>
    /\ Response.entities_visited = 2
    /\ Answer = YES


\* The answer of the hierarchy sub-query from the asked head to the holder.
SubQueryAnswer(holder) ==
    HierarchyReasoner_reason(edges, is_connected,
                             Question(SUBCLASS_OF, AskedHead, holder),
                             ExecutionContext).result

=============================================================================
